---- MODULE Spec2Model ----
(***************************************************************************)
(* Model of modules/cr_cleaner.py: the path filter, the directory walker,  *)
(* the CR+LF inspector, the in-place rewriter, the orchestrator cr_finder  *)
(* and the command-line entry block.                                       *)
(*                                                                         *)
(* Text (paths, names, answers) is a sequence of one-character strings,    *)
(* file content is a sequence of byte values.  Python values that may be   *)
(* True, False or None are the strings "True", "False", "None".            *)
(***************************************************************************)
EXTENDS Integers, Sequences, FiniteSets, TLC

VARIABLES
    tree,      \* directory path -> [dirs, files]: what os.scandir lists
    disk,      \* file path -> [content, mode]
    disk0,     \* the disk as it was before the run (history)
    argv,      \* the option flags of the command line, once it is read
    cwd,       \* the root path handed to the entry point
    stdin,     \* the line the user types when input() is called
    pc,        \* "start", "finder", "walking", "done", "raised"
    entry,     \* how the run was entered: "none", "main_dir", "main_file",
               \* "cr_finder", "walker", "direct"
    flags,     \* [only_inspect, verbose, safe_mode] of the running call
    gen,       \* paths the walker generator has still to yield
    yielded,   \* paths the walker generator has yielded, in order
    trace,     \* the calls of cr_infile_searching / cr_cleaner, in order
    stdout,    \* what was printed, in order
    exc        \* the exception that ended the run, or "none"

vars == <<tree, disk, disk0, argv, cwd, stdin, pc, entry, flags, gen,
          yielded, trace, stdout, exc>>

---------------------------------------------------------------------------
(* Bounds *)

MaxLen == 4        \* bytes of a file's content (file-function runs)
MaxCalls == 2      \* successive direct calls on the one file
MaxFsLines == 1    \* lines of a file's content (orchestrator runs)
MaxKids == 2       \* sub-directories per directory (walker runs)
MaxDepth == 2      \* nesting depth below the root (walker runs)

---------------------------------------------------------------------------
(* Bytes and text *)

LF == 10
CR == 13

\* the bytes file contents are drawn from: \n, \r and one ordinary byte
Bytes == {LF, CR} \cup {97}

CRLF == <<CR, LF>>

RECURSIVE SeqsUpTo(_, _)
SeqsUpTo(S, n) ==
    IF n = 0 THEN {<<>>}
    ELSE LET shorter == SeqsUpTo(S, n - 1)
         IN  shorter \cup {Append(s, x) : s \in {t \in shorter : Len(t) = n - 1}, x \in S}

\* bytes.endswith / str.endswith
endswith(s, suffix) ==
    /\ Len(s) >= Len(suffix)
    /\ SubSeq(s, Len(s) - Len(suffix) + 1, Len(s)) = suffix

\* bytes.replace(old, new): every non-overlapping occurrence, left to right
RECURSIVE replace(_, _, _)
replace(s, old, new) ==
    IF Len(s) < Len(old) THEN s
    ELSE IF SubSeq(s, 1, Len(old)) = old
         THEN new \o replace(SubSeq(s, Len(old) + 1, Len(s)), old, new)
         ELSE <<Head(s)>> \o replace(Tail(s), old, new)

\* f.readlines() of a binary file: maximal runs ending in \n or at EOF
RECURSIVE readlines_from(_, _)
readlines_from(bs, cur) ==
    IF bs = <<>> THEN (IF cur = <<>> THEN <<>> ELSE <<cur>>)
    ELSE IF Head(bs) = LF
         THEN <<Append(cur, LF)>> \o readlines_from(Tail(bs), <<>>)
         ELSE readlines_from(Tail(bs), Append(cur, Head(bs)))

readlines(bs) == readlines_from(bs, <<>>)

\* f.write(data) at offset pos of a file opened without truncation
file_write(buf, pos, data) ==
    LET end == pos + Len(data)
    IN  [buf |-> SubSeq(buf, 1, pos) \o data \o SubSeq(buf, end + 1, Len(buf)),
         pos |-> end]

\* variant: the file keeps its length
file_truncate_Missing(buf, pos) == buf

\* f.truncate(): cut the file at the current offset
file_truncate(buf, pos) == SubSeq(buf, 1, pos)

\* str.lower() on the characters the model uses
LowerChar(c) == IF c = "Y" THEN "y" ELSE IF c = "N" THEN "n" ELSE c

lower(s) == [i \in 1..Len(s) |-> LowerChar(s[i])]

\* s[:1]
first1(s) == SubSeq(s, 1, IF Len(s) < 1 THEN Len(s) ELSE 1)

\* variant: everything but False counts as true
Truthy_NotFalse(v) == v # "False"

\* Python truth value of True / False / None
Truthy(v) == v = "True"

---------------------------------------------------------------------------
(* Files *)

\* open(file_name, 'rb') succeeds
CanOpenRead(d, file_name) ==
    /\ file_name \in DOMAIN d
    /\ d[file_name].mode \in {"rw", "r"}

\* open(file_name, 'r+b') succeeds
CanOpenUpdate(d, file_name) ==
    /\ file_name \in DOMAIN d
    /\ d[file_name].mode = "rw"

\* the exception open() raises when it fails
OpenError(d, file_name) ==
    IF file_name \in DOMAIN d THEN "PermissionError" ELSE "FileNotFoundError"

Diag(kind, file_name, idx, line) ==
    [kind |-> kind, file |-> file_name, idx |-> idx, line |-> line]

---------------------------------------------------------------------------
(* cr_infile_searching *)

\* the for loop over enumerate(f.readlines()), at 1-based position i;
\* tested counts the lines whose ending has been examined
RECURSIVE SearchLoop(_, _, _, _, _, _)

\* variant: returns at the first match whatever verbose is
SearchLoop_ShortCircuit(file_name, lines, i, has_cr, verbose, out) ==
    IF i > Len(lines)
    THEN [ret |-> has_cr, out |-> out, tested |-> Len(lines)]
    ELSE IF endswith(lines[i], CRLF)
         THEN [ret |-> "True",
               out |-> IF verbose
                       THEN Append(out, Diag("win32", file_name, i - 1, lines[i]))
                       ELSE out,
               tested |-> i]
         ELSE SearchLoop(file_name, lines, i + 1, has_cr, verbose, out)

SearchLoop(file_name, lines, i, has_cr, verbose, out) ==
    IF i > Len(lines)
    THEN [ret |-> has_cr, out |-> out, tested |-> Len(lines)]
    ELSE IF endswith(lines[i], CRLF)
         THEN IF verbose
              THEN SearchLoop(file_name, lines, i + 1, "True", verbose,
                              Append(out, Diag("win32", file_name, i - 1, lines[i])))
              ELSE [ret |-> "True", out |-> out, tested |-> i]
         ELSE SearchLoop(file_name, lines, i + 1, has_cr, verbose, out)

cr_infile_searching(d, file_name, verbose) ==
    IF CanOpenRead(d, file_name)
    THEN SearchLoop(file_name, readlines(d[file_name].content), 1, "False",
                    verbose, <<>>)
    ELSE [ret |-> "None",
          out |-> <<Diag("cant_read", file_name, -1, <<>>)>>,
          tested |-> 0]

---------------------------------------------------------------------------
(* cr_cleaner *)

\* variant: the line is written back as it was read
CleanLine_Unchanged(line) == line

\* the body of the for loop: one line, rewritten if it ends in \r\n
CleanLine(line) ==
    IF endswith(line, CRLF) THEN replace(line, CRLF, <<LF>>) ELSE line

\* the for loop writing the lines back from offset pos
RECURSIVE WriteLines(_, _, _, _)
WriteLines(buf, pos, lines, i) ==
    IF i > Len(lines) THEN [buf |-> buf, pos |-> pos]
    ELSE LET w == file_write(buf, pos, CleanLine(lines[i]))
         IN  WriteLines(w.buf, w.pos, lines, i + 1)

\* variant: no seek(0), the lines are written from the end of the file
RewriteContent_NoSeek(content) ==
    LET w == WriteLines(content, Len(content), readlines(content), 1)
    IN  file_truncate(w.buf, w.pos)

\* the with block: readlines, seek(0), write every line, truncate
RewriteContent(content) ==
    LET w == WriteLines(content, 0, readlines(content), 1)
    IN  file_truncate(w.buf, w.pos)

\* The local name f is bound only by the with statement, after the prompt
\* text f'Clear CR from: {f}? [Y / N]' has been formatted.
PromptNameBound == FALSE

\* the safe_mode block: "raise", "skip" or "go"
Confirm(answer) ==
    IF ~PromptNameBound THEN "raise"
    ELSE IF first1(lower(answer)) # <<"y">> THEN "skip"
    ELSE "go"

cr_cleaner(d, file_name, safe_mode, answer) ==
    LET gate == IF safe_mode THEN Confirm(answer) ELSE "go"
        asked == safe_mode /\ gate # "raise"
    IN  IF gate = "raise"
        THEN [disk |-> d, exc |-> "UnboundLocalError", prompted |-> FALSE]
        ELSE IF gate = "skip"
        THEN [disk |-> d, exc |-> "none", prompted |-> asked]
        ELSE IF ~CanOpenUpdate(d, file_name)
        THEN [disk |-> d, exc |-> OpenError(d, file_name), prompted |-> asked]
        ELSE [disk |-> [d EXCEPT ![file_name].content = RewriteContent(@)],
              exc |-> "none", prompted |-> asked]

---------------------------------------------------------------------------
(* Settings and names *)

TARGET_FILES == << <<".", "p", "y">> >>

IGNORE_FOLDERS ==
    << <<"s", "i", "t", "e", "-", "p", "a", "c", "k", "a", "g", "e", "s">>,
       <<"n", "o", "d", "e", "_", "m", "o", "d", "u", "l", "e", "s">>,
       <<".", "g", "i", "t">>,
       <<"v", "e", "n", "v">>,
       <<".", "e", "n", "v">>,
       <<".", "v", "s", "c", "o", "d", "e">>,
       <<".", "i", "d", "e", "a">> >>

\* os.path.split(__file__)[1]
app_file_name == <<"c", "r", "_", "c", "l", "e", "a", "n", "e", "r", ".", "p", "y">>

\* the directory and file names the model's trees are built from
RootDir == <<"x">>

DirNameList ==
    << <<"s">>,
       <<".", "g", "i", "t">>,
       <<"v", "e", "n", "v", "s">>,
       <<"h", "o", "o", "k", "s">> >>

A_py == <<"a", ".", "p", "y">>
B_txt == <<"b", ".", "t", "x", "t">>
C_py == <<"c", ".", "p", "y">>

FileNameList ==
    << A_py, B_txt, C_py, <<".", "p", "y">>, <<"a", ".", "P", "Y">>,
       app_file_name >>

Range(s) == {s[i] : i \in 1..Len(s)}

\* the concatenation of a sequence of sequences
RECURSIVE Flatten(_)
Flatten(ls) == IF ls = <<>> THEN <<>> ELSE Head(ls) \o Flatten(Tail(ls))

\* the members of list, in list order, that are in S
Pick(list, S) == SelectSeq(list, LAMBDA e : e \in S)

---------------------------------------------------------------------------
(* Path functions *)

\* the Python test  sub in text  on strings
IsSubstring(sub, text) ==
    \E i \in 0..(Len(text) - Len(sub)) : SubSeq(text, i + 1, i + Len(sub)) = sub

\* str.rfind(ch), 0-based, -1 when absent
rfind(text, ch) ==
    LET hits == {i \in 1..Len(text) : text[i] = ch}
    IN  IF hits = {} THEN -1
        ELSE (CHOOSE i \in hits : \A j \in hits : j <= i) - 1

\* os.path.splitext(p)[1]: from the last dot of the last component, unless
\* only dots precede it there
splitext_ext(p) ==
    LET sepIndex == rfind(p, "/")
        dotIndex == rfind(p, ".")
    IN  IF /\ dotIndex > sepIndex
           /\ \E k \in (sepIndex + 1)..(dotIndex - 1) : p[k + 1] # "."
        THEN SubSeq(p, dotIndex + 1, Len(p))
        ELSE <<>>

\* os.path.join(a, b) for a relative b
join(a, b) ==
    IF a = <<>> \/ a[Len(a)] = "/" THEN a \o b ELSE a \o <<"/">> \o b

\* the for loop over IGNORE_FOLDERS, from position i
RECURSIVE IgnoreLoop(_, _)
IgnoreLoop(filepath, i) ==
    IF i > Len(IGNORE_FOLDERS) THEN "True"
    ELSE IF IsSubstring(IGNORE_FOLDERS[i], filepath) THEN "False"
    ELSE IgnoreLoop(filepath, i + 1)

\* variant: only the directory's own name is compared with the list
is_valid_path_ByName(filepath) ==
    IF SubSeq(filepath, rfind(filepath, "/") + 2, Len(filepath))
           \in Range(IGNORE_FOLDERS)
    THEN "False" ELSE "True"

is_valid_path(filepath) == IgnoreLoop(filepath, 1)

is_valid(filename) ==
    IF filename = app_file_name THEN "False"
    ELSE IF splitext_ext(filename) \in Range(TARGET_FILES) THEN "True"
    ELSE "None"

---------------------------------------------------------------------------
(* walker *)

\* os.walk(top), top-down: the (cur_dir, sub_dirs, sub_files) triples in the
\* order they are produced; a top that cannot be listed produces nothing
RECURSIVE os_walk(_, _), os_walk_subdirs(_, _, _, _)
os_walk(t, top) ==
    IF top \notin DOMAIN t THEN <<>>
    ELSE << <<top, t[top].dirs, t[top].files>> >>
         \o os_walk_subdirs(t, top, t[top].dirs, 1)

os_walk_subdirs(t, top, dirs, i) ==
    IF i > Len(dirs) THEN <<>>
    ELSE os_walk(t, join(top, dirs[i])) \o os_walk_subdirs(t, top, dirs, i + 1)

\* the inner for loop over sub_files, from position i
RECURSIVE YieldFiles(_, _, _)
YieldFiles(cur_dir, sub_files, i) ==
    IF i > Len(sub_files) THEN <<>>
    ELSE (IF Truthy(is_valid(sub_files[i]))
          THEN <<join(cur_dir, sub_files[i])>> ELSE <<>>)
         \o YieldFiles(cur_dir, sub_files, i + 1)

\* the outer for loop over the triples, from position i
RECURSIVE WalkLoop(_, _)
WalkLoop(triples, i) ==
    IF i > Len(triples) THEN <<>>
    ELSE (IF ~Truthy(is_valid_path(triples[i][1])) THEN <<>>
          ELSE YieldFiles(triples[i][1], triples[i][3], 1))
         \o WalkLoop(triples, i + 1)

\* everything the generator walker(init_path) yields, in order
walker(t, init_path) == WalkLoop(os_walk(t, init_path), 1)

---------------------------------------------------------------------------
(* Call records *)

Content(d, p) == IF p \in DOMAIN d THEN d[p].content ELSE <<>>

\* a call of cr_infile_searching and what it returned
InspectCall(d, p, v, r) ==
    [fn |-> "inspect", path |-> p, verbose |-> v, safe |-> FALSE,
     answer |-> <<>>, ret |-> r.ret, tested |-> r.tested, out |-> r.out,
     before |-> Content(d, p), after |-> Content(d, p), exc |-> "none",
     prompted |-> FALSE]

\* a call of cr_cleaner and how it ended
CleanCall(d, p, s, ans, r) ==
    [fn |-> "clean", path |-> p, verbose |-> FALSE, safe |-> s,
     answer |-> ans, ret |-> "None", tested |-> 0, out |-> <<>>,
     before |-> Content(d, p), after |-> Content(r.disk, p), exc |-> r.exc,
     prompted |-> r.prompted]

NoFlags == [only_inspect |-> FALSE, verbose |-> FALSE, safe_mode |-> FALSE]

\* the answers a user may type at the prompt
Answers == {<<"y">>, <<"Y", "e", "s">>, <<"n">>, <<>>}

---------------------------------------------------------------------------
(* Direct calls of cr_infile_searching and cr_cleaner on one file *)

TheFile == join(RootDir, A_py)

InitFile ==
    /\ tree = [d \in {RootDir} |-> [dirs |-> <<>>, files |-> <<A_py>>]]
    /\ disk \in [{TheFile} -> [content : SeqsUpTo(Bytes, MaxLen), mode : {"rw"}]]
    /\ disk0 = disk
    /\ argv = {}
    /\ cwd = TheFile
    /\ stdin \in Answers
    /\ pc = "start"
    /\ entry = "direct"
    /\ flags = NoFlags
    /\ gen = <<>>
    /\ yielded = <<>>
    /\ trace = <<>>
    /\ stdout = <<>>
    /\ exc = "none"

CallInspect(v) ==
    /\ pc = "start"
    /\ entry = "direct"
    /\ Len(trace) < MaxCalls
    /\ LET r == cr_infile_searching(disk, cwd, v)
       IN  /\ trace' = Append(trace, InspectCall(disk, cwd, v, r))
           /\ stdout' = stdout \o r.out
    /\ UNCHANGED <<tree, disk, disk0, argv, cwd, stdin, pc, entry, flags, gen,
                   yielded, exc>>

CallCleaner(s) ==
    /\ pc = "start"
    /\ entry = "direct"
    /\ Len(trace) < MaxCalls
    /\ LET r == cr_cleaner(disk, cwd, s, stdin)
       IN  /\ trace' = Append(trace, CleanCall(disk, cwd, s, stdin, r))
           /\ disk' = r.disk
           /\ exc' = r.exc
           /\ pc' = IF r.exc = "none" THEN "start" ELSE "raised"
    /\ UNCHANGED <<tree, disk0, argv, cwd, stdin, entry, flags, gen, yielded,
                   stdout>>

NextFile ==
    \/ \E v \in BOOLEAN : CallInspect(v)
    \/ \E s \in BOOLEAN : CallCleaner(s)

SpecFile == InitFile /\ [][NextFile]_vars

---------------------------------------------------------------------------
(* The walker generator, consumed to its end *)

\* the directories of a tree in which every directory above depth `depth`
\* lists the sub-directories kids
RECURSIVE DirPaths(_, _, _)
DirPaths(top, kids, depth) ==
    {top} \cup (IF depth = 0 THEN {}
                ELSE UNION {DirPaths(join(top, kids[i]), kids, depth - 1) :
                            i \in 1..Len(kids)})

Level(d) == Cardinality({i \in 1..Len(d) : d[i] = "/"})

TreeOf(kids, files, depth) ==
    [d \in DirPaths(RootDir, kids, depth) |->
        [dirs |-> IF Level(d) < depth THEN kids ELSE <<>>, files |-> files]]

WalkTrees ==
    {TreeOf(Pick(DirNameList, K), Pick(FileNameList, F), n) :
        K \in {S \in SUBSET Range(DirNameList) : Cardinality(S) <= MaxKids},
        F \in SUBSET Range(FileNameList),
        n \in 0..MaxDepth}

NoDisk == [p \in {} |-> [content |-> <<>>, mode |-> "rw"]]

InitWalk ==
    /\ tree \in WalkTrees
    /\ disk = NoDisk
    /\ disk0 = disk
    /\ argv = {}
    /\ cwd = RootDir
    /\ stdin = <<>>
    /\ pc = "start"
    /\ entry = "walker"
    /\ flags = NoFlags
    /\ gen = <<>>
    /\ yielded = <<>>
    /\ trace = <<>>
    /\ stdout = <<>>
    /\ exc = "none"

\* walker(init_path) is called: the generator is created
WalkerCall ==
    /\ pc = "start"
    /\ entry = "walker"
    /\ pc' = "walking"
    /\ gen' = walker(tree, cwd)
    /\ UNCHANGED <<tree, disk, disk0, argv, cwd, stdin, entry, flags, yielded,
                   trace, stdout, exc>>

\* next() on the generator yields a path
WalkerNext ==
    /\ pc = "walking"
    /\ gen # <<>>
    /\ yielded' = Append(yielded, Head(gen))
    /\ gen' = Tail(gen)
    /\ UNCHANGED <<tree, disk, disk0, argv, cwd, stdin, pc, entry, flags,
                   trace, stdout, exc>>

\* next() on the generator finds it exhausted
WalkerStop ==
    /\ pc = "walking"
    /\ gen = <<>>
    /\ pc' = "done"
    /\ UNCHANGED <<tree, disk, disk0, argv, cwd, stdin, entry, flags, gen,
                   yielded, trace, stdout, exc>>

NextWalk == WalkerCall \/ WalkerNext \/ WalkerStop

SpecWalk == InitWalk /\ [][NextWalk]_vars

---------------------------------------------------------------------------
(* cr_finder and the command-line entry *)

\* the options of the command line that set flags
Options == {"-v", "-s", "-i"}

\* the for loop over sys.argv[1:]: -i sets only_inspect and verbose
ParseFlags(args) ==
    [only_inspect |-> "-i" \in args,
     verbose |-> ("-v" \in args) \/ ("-i" \in args),
     safe_mode |-> "-s" \in args]

\* os.path.isdir(cwd)
isdir(t, path) == path \in DOMAIN t

\* variant: the cleaner runs when either operand holds
ShouldClean_Or(has_cr, only_inspect) == Truthy(has_cr) \/ ~only_inspect

\* the test  has_cr and not only_inspect
ShouldClean(has_cr, only_inspect) == Truthy(has_cr) /\ ~only_inspect

\* one pass of the for loop of cr_finder over file_path
FinderBody(d, file_path, f, answer) ==
    LET r == cr_infile_searching(d, file_path, f.verbose)
        ins == InspectCall(d, file_path, f.verbose, r)
    IN  IF ShouldClean(r.ret, f.only_inspect)
        THEN LET c == cr_cleaner(d, file_path, f.safe_mode, answer)
             IN  [disk |-> c.disk, out |-> r.out, exc |-> c.exc,
                  calls |-> <<ins, CleanCall(d, file_path, f.safe_mode, answer, c)>>]
        ELSE [disk |-> d, out |-> r.out, exc |-> "none", calls |-> <<ins>>]

\* variant: the single file goes through the extension filter first
SingleFile_Filtered(d, file_path, f, answer) ==
    IF Truthy(is_valid(file_path))
    THEN FinderBody(d, file_path, [f EXCEPT !.only_inspect = FALSE], answer)
    ELSE [disk |-> d, out |-> <<>>, exc |-> "none", calls |-> <<>>]

\* the else branch of the entry block: inspect if verbose, clean if not
\* only_inspect
SingleFile(d, file_path, f, answer) ==
    LET r == cr_infile_searching(d, file_path, f.verbose)
        insCalls == IF f.verbose
                    THEN <<InspectCall(d, file_path, f.verbose, r)>> ELSE <<>>
        insOut == IF f.verbose THEN r.out ELSE <<>>
    IN  IF ~f.only_inspect
        THEN LET c == cr_cleaner(d, file_path, f.safe_mode, answer)
             IN  [disk |-> c.disk, out |-> insOut, exc |-> c.exc,
                  calls |-> Append(insCalls,
                                   CleanCall(d, file_path, f.safe_mode, answer, c))]
        ELSE [disk |-> d, out |-> insOut, exc |-> "none", calls |-> insCalls]

\* the contents the files of the orchestrator runs are drawn from; at most
\* one of the two candidates is read-only ("r") or unreadable ("none")
FsLines == {<<97, LF>>, <<97, CR, LF>>}

FsContents == {Flatten(ls) : ls \in SeqsUpTo(FsLines, MaxFsLines)}

Candidates == {join(RootDir, A_py), join(RootDir, C_py)}

Bystander == join(RootDir, B_txt)

Init ==
    /\ tree = [d \in {RootDir} |-> [dirs |-> <<>>, files |-> <<A_py, B_txt, C_py>>]]
    /\ \E cont \in [Candidates \cup {Bystander} -> FsContents],
          bad \in Candidates, m \in {"rw", "r", "none"} :
            disk = [p \in Candidates \cup {Bystander} |->
                       [content |-> cont[p],
                        mode |-> IF p = bad THEN m ELSE "rw"]]
    /\ disk0 = disk
    /\ argv = {}
    /\ cwd \in {RootDir, Bystander}
    /\ stdin = <<"y">>
    /\ pc = "start"
    /\ entry = "none"
    /\ flags = NoFlags
    /\ gen = <<>>
    /\ yielded = <<>>
    /\ trace = <<>>
    /\ stdout = <<>>
    /\ exc = "none"

\* the entry block with a directory and the options args: cr_finder is
\* called with the parsed flags
MainDir(args) ==
    /\ pc = "start"
    /\ entry = "none"
    /\ isdir(tree, cwd)
    /\ argv' = args
    /\ entry' = "main_dir"
    /\ flags' = ParseFlags(args)
    /\ gen' = walker(tree, cwd)
    /\ pc' = "finder"
    /\ UNCHANGED <<tree, disk, disk0, cwd, stdin, yielded, trace, stdout, exc>>

\* the entry block with the options args and anything else than a directory
MainFile(args) ==
    /\ pc = "start"
    /\ entry = "none"
    /\ ~isdir(tree, cwd)
    /\ argv' = args
    /\ entry' = "main_file"
    /\ flags' = ParseFlags(args)
    /\ LET r == SingleFile(disk, cwd, ParseFlags(args), stdin)
       IN  /\ disk' = r.disk
           /\ trace' = trace \o r.calls
           /\ stdout' = stdout \o r.out
           /\ exc' = r.exc
           /\ pc' = IF r.exc = "none" THEN "done" ELSE "raised"
    /\ UNCHANGED <<tree, disk0, cwd, stdin, gen, yielded>>

\* cr_finder called as a function, with any parameters
CallCrFinder(oi, v, s) ==
    /\ pc = "start"
    /\ entry = "none"
    /\ entry' = "cr_finder"
    /\ flags' = [only_inspect |-> oi, verbose |-> v, safe_mode |-> s]
    /\ gen' = walker(tree, cwd)
    /\ pc' = "finder"
    /\ UNCHANGED <<tree, disk, disk0, argv, cwd, stdin, yielded, trace, stdout,
                   exc>>

\* the walker yields the next path and the loop body runs on it
FinderStep ==
    /\ pc = "finder"
    /\ gen # <<>>
    /\ yielded' = Append(yielded, Head(gen))
    /\ gen' = Tail(gen)
    /\ LET r == FinderBody(disk, Head(gen), flags, stdin)
       IN  /\ disk' = r.disk
           /\ trace' = trace \o r.calls
           /\ stdout' = stdout \o r.out
           /\ exc' = r.exc
           /\ pc' = IF r.exc = "none" THEN "finder" ELSE "raised"
    /\ UNCHANGED <<tree, disk0, argv, cwd, stdin, entry, flags>>

\* the walker is exhausted and cr_finder returns
FinderReturn ==
    /\ pc = "finder"
    /\ gen = <<>>
    /\ pc' = "done"
    /\ UNCHANGED <<tree, disk, disk0, argv, cwd, stdin, entry, flags, gen,
                   yielded, trace, stdout, exc>>

Next ==
    \/ \E args \in SUBSET Options : MainDir(args)
    \/ \E args \in SUBSET Options : MainFile(args)
    \/ \E oi, v, s \in BOOLEAN : CallCrFinder(oi, v, s)
    \/ FinderStep
    \/ FinderReturn

Spec == Init /\ [][Next]_vars

---------------------------------------------------------------------------
(* Properties of the direct calls *)

Idx(q) == 1..Len(q)

CRCRLF == <<CR, CR, LF>>

HasCRLFLine(content) ==
    \E l \in Range(readlines(content)) : endswith(l, CRLF)

HasCRCRLFLine(content) ==
    \E l \in Range(readlines(content)) : endswith(l, CRCRLF)

\* the calls of cr_cleaner with safe_mode false that returned
Rewrites == {k \in Idx(trace) : /\ trace[k].fn = "clean"
                                /\ ~trace[k].safe
                                /\ trace[k].exc = "none"}

\* C1 as stated: after a rewrite no line of the file ends with \r\n,
\* whatever the input lines were.
C1_NoLineEndsCRLF ==
    \A k \in Rewrites : ~HasCRLFLine(trace[k].after)

\* C1 amended: after a rewrite the file has as many lines as before, and a
\* line of the result ends with \r\n exactly when the input line at the same
\* position ended with \r\r\n; every other line does not end with \r\n.
C1_CRLFOnlyFromCRCRLF ==
    \A k \in Rewrites :
        LET inl == readlines(trace[k].before)
            outl == readlines(trace[k].after)
        IN  /\ Len(outl) = Len(inl)
            /\ \A i \in Idx(outl) \cap Idx(inl) :
                   endswith(outl[i], CRLF) <=> endswith(inl[i], CRCRLF)

\* a rewrite of a file with a \r\n line that has no \r before the terminator
\* and that came out without \r\n lines
C1_Witness ==
    \E k \in Rewrites :
        /\ HasCRLFLine(trace[k].before)
        /\ ~HasCRCRLFLine(trace[k].before)
        /\ Len(readlines(trace[k].before)) >= 2
        /\ ~HasCRLFLine(trace[k].after)
        /\ trace[k].after # trace[k].before

\* C2 as stated: a second rewrite leaves every file as the first left it,
\* and a rewrite of a file without \r\n lines leaves it unchanged.
C2_Idempotent ==
    /\ \A j, k \in Rewrites : j < k => trace[k].after = trace[j].after
    /\ \A k \in Rewrites :
           ~HasCRLFLine(trace[k].before) => trace[k].after = trace[k].before

\* C2 amended: for an input none of whose lines ends with \r\r\n, a second
\* rewrite leaves the file as the first left it; a rewrite of a file without
\* \r\n lines leaves it unchanged.
C2_IdempotentWithoutCRCRLF ==
    /\ \A j, k \in Rewrites :
           (j < k /\ ~HasCRCRLFLine(trace[j].before))
               => trace[k].after = trace[j].after
    /\ \A k \in Rewrites :
           ~HasCRLFLine(trace[k].before) => trace[k].after = trace[k].before

\* two rewrites in a row of a file with a \r\n line, the first of which
\* changed it
C2_Witness ==
    \E j, k \in Rewrites :
        /\ j < k
        /\ HasCRLFLine(trace[j].before)
        /\ ~HasCRCRLFLine(trace[j].before)
        /\ trace[j].after # trace[j].before
        /\ trace[k].before = trace[j].after

IsYes(answer) == first1(lower(answer)) = <<"y">>

\* C5: a call with safe_mode true prompts and returns normally; the file is
\* rewritten as with safe_mode false when the answer starts with y or Y, and
\* is left as it was otherwise.
C5_SafeModeConfirms ==
    \A k \in Idx(trace) :
        (trace[k].fn = "clean" /\ trace[k].safe) =>
            /\ trace[k].prompted
            /\ trace[k].exc = "none"
            /\ trace[k].after = IF IsYes(trace[k].answer)
                                THEN RewriteContent(trace[k].before)
                                ELSE trace[k].before

\* the 1-based positions of the lines ending with \r\n, in increasing order
CRLFPositions(lines) ==
    SelectSeq([i \in Idx(lines) |-> i], LAMBDA i : endswith(lines[i], CRLF))

\* C7: on a readable file the inspector returns True exactly when a line ends
\* with \r\n.  With verbose false it stops at the first such line and prints
\* nothing; with verbose true it examines every line and prints one
\* diagnostic per \r\n line, with its 0-based index, in increasing order;
\* without such a line it returns False after examining every line.
C7_InspectResult ==
    \A k \in Idx(trace) :
        (trace[k].fn = "inspect" /\ CanOpenRead(disk0, trace[k].path)) =>
            LET e == trace[k]
                lines == readlines(e.before)
                hits == CRLFPositions(lines)
            IN  /\ e.ret = (IF hits # <<>> THEN "True" ELSE "False")
                /\ (~e.verbose /\ hits # <<>>) =>
                       (e.tested = hits[1] /\ e.out = <<>>)
                /\ e.verbose =>
                       /\ e.tested = Len(lines)
                       /\ e.out = [n \in Idx(hits) |->
                                      Diag("win32", e.path, hits[n] - 1, lines[hits[n]])]
                /\ hits = <<>> => (e.tested = Len(lines) /\ e.out = <<>>)

\* a verbose inspection whose first report is not for line 0 and that went
\* on to later lines
C7_Witness ==
    \E k \in Idx(trace) :
        /\ trace[k].fn = "inspect"
        /\ trace[k].verbose
        /\ trace[k].ret = "True"
        /\ Len(trace[k].out) >= 1
        /\ trace[k].out[1].idx >= 1
        /\ trace[k].tested > trace[k].out[1].idx + 1

\* a line with its \r\n terminator replaced by \n, any other line as it is
ExpectedLine(l) ==
    IF Len(l) >= 2 /\ l[Len(l) - 1] = CR /\ l[Len(l)] = LF
    THEN SubSeq(l, 1, Len(l) - 2) \o <<LF>>
    ELSE l

\* C9: after a rewrite the file is the concatenation, in order, of the input
\* lines with every \r\n terminator replaced by \n and every other line as
\* it was; it has as many lines as the input, at most as many bytes, and
\* nothing of the longer original is left behind the last written line.
C9_RewriteContent ==
    \A k \in Rewrites :
        LET inl == readlines(trace[k].before)
            want == Flatten([i \in Idx(inl) |-> ExpectedLine(inl[i])])
        IN  /\ trace[k].after = want
            /\ Len(readlines(trace[k].after)) = Len(inl)
            /\ Len(trace[k].after) <= Len(trace[k].before)

\* a rewrite of a file with a \r\n line followed by an unterminated last
\* line ending in a bare \r, which came out one byte shorter
C9_Witness ==
    \E k \in Rewrites :
        LET inl == readlines(trace[k].before)
        IN  /\ Len(inl) = 2
            /\ endswith(inl[1], CRLF)
            /\ inl[2] = <<CR>>
            /\ Len(trace[k].after) = Len(trace[k].before) - 1

---------------------------------------------------------------------------
(* Properties of the walker *)

\* no string of IGNORE_FOLDERS occurs anywhere in the path
FreeOfIgnored(path) ==
    \A n \in 1..Len(IGNORE_FOLDERS) : ~IsSubstring(IGNORE_FOLDERS[n], path)

\* the paths the three conditions of C6 select
EligiblePaths(t) ==
    UNION {{join(d, f) : f \in {g \in Range(t[d].files) :
                                   /\ g # app_file_name
                                   /\ splitext_ext(g) \in Range(TARGET_FILES)}} :
           d \in {e \in DOMAIN t : FreeOfIgnored(e)}}

IsUnder(path, d) ==
    /\ Len(path) > Len(d) + 1
    /\ SubSeq(path, 1, Len(d) + 1) = d \o <<"/">>

\* C6: the walker yields exactly the joined paths dir/file with dir free of
\* every ignored string, file not the tool's own file name and the file's
\* extension in TARGET_FILES, each once; nothing below an ignored directory
\* is ever yielded, at any depth.
C6_WalkerYields ==
    /\ Range(yielded) \subseteq EligiblePaths(tree)
    /\ \A i, j \in Idx(yielded) : yielded[i] = yielded[j] => i = j
    /\ pc = "done" => Range(yielded) = EligiblePaths(tree)
    /\ \A p \in Range(yielded) : \A d \in DOMAIN tree :
           ~FreeOfIgnored(d) => ~IsUnder(p, d)

\* a finished walk that yielded a.py from the root and from a directory two
\* levels down, over a tree that holds a.py two levels down in a directory
\* whose own name is not in IGNORE_FOLDERS but whose path has an ignored
\* string, and the tool's own file in the root
C6_Witness ==
    /\ pc = "done"
    /\ entry = "walker"
    /\ join(RootDir, A_py) \in Range(yielded)
    /\ \E d \in DOMAIN tree :
           /\ Level(d) = 2
           /\ FreeOfIgnored(d)
           /\ join(d, A_py) \in Range(yielded)
    /\ \E d \in DOMAIN tree :
           /\ Level(d) = 2
           /\ ~FreeOfIgnored(d)
           /\ SubSeq(d, rfind(d, "/") + 2, Len(d)) \notin Range(IGNORE_FOLDERS)
           /\ A_py \in Range(tree[d].files)
    /\ app_file_name \in Range(tree[RootDir].files)

---------------------------------------------------------------------------
(* Properties of cr_finder and of the entry block *)

InFinder == entry \in {"main_dir", "cr_finder"}

Ended == pc \in {"done", "raised"}

CallsOf(fn, p) == {k \in Idx(trace) : trace[k].fn = fn /\ trace[k].path = p}

\* C3: cr_finder calls the cleaner on a path exactly when the walker yielded
\* the path, the inspector returned True for it and only_inspect is false;
\* with only_inspect true no file changes, and a file the walker does not
\* yield, or one without a \r\n line, never changes.
C3_CleanerCalledIff ==
    InFinder =>
        /\ \A p \in DOMAIN disk :
               (CallsOf("clean", p) # {}) <=>
                   /\ p \in Range(yielded)
                   /\ \E k \in CallsOf("inspect", p) : trace[k].ret = "True"
                   /\ ~flags.only_inspect
        /\ \A k \in Idx(trace) :
               trace[k].fn = "clean" => trace[k].path \in DOMAIN disk
        /\ flags.only_inspect => disk = disk0
        /\ \A p \in DOMAIN disk :
               (p \notin Range(walker(tree, cwd)) \/ ~HasCRLFLine(disk0[p].content))
                   => disk[p] = disk0[p]

\* a finished clean run over the directory that rewrote a.py, inspected
\* c.py without cleaning it, and left b.txt with its \r\n line
C3_Witness ==
    /\ InFinder
    /\ pc = "done"
    /\ ~flags.only_inspect
    /\ CallsOf("clean", join(RootDir, A_py)) # {}
    /\ disk[join(RootDir, A_py)] # disk0[join(RootDir, A_py)]
    /\ CallsOf("inspect", join(RootDir, C_py)) # {}
    /\ CallsOf("clean", join(RootDir, C_py)) = {}
    /\ HasCRLFLine(disk[Bystander].content)

IOErrors == {"PermissionError", "FileNotFoundError"}

\* some open, read or write of a candidate failed during the run
SomeFileFailed ==
    \E k \in Idx(trace) :
        \/ trace[k].fn = "inspect" /\ trace[k].ret = "None"
        \/ trace[k].fn = "clean" /\ trace[k].exc \in IOErrors

\* C4: when a file operation failed on one candidate, during inspection or
\* during the rewrite, the run is not aborted: it ends normally with every
\* candidate of the walker inspected.
C4_FailureDoesNotAbort ==
    (InFinder /\ Ended /\ SomeFileFailed) =>
        /\ pc = "done"
        /\ \A p \in Range(walker(tree, cwd)) : CallsOf("inspect", p) # {}

\* C8: with a single file as root the walker and the extension filter are
\* bypassed: the file is inspected exactly when verbose is set and the
\* cleaner is called on it exactly when only_inspect is not set, whatever
\* its extension; a clean run on b.txt holding a\r\n leaves a\n, and an
\* inspect-only run leaves every file as it was.
C8_SingleFile ==
    (entry = "main_file" /\ Ended) =>
        /\ yielded = <<>>
        /\ (CallsOf("inspect", cwd) # {}) <=> flags.verbose
        /\ (CallsOf("clean", cwd) # {}) <=> ~flags.only_inspect
        /\ \A k \in Idx(trace) : trace[k].path = cwd
        /\ (~flags.only_inspect /\ ~flags.safe_mode /\ CanOpenUpdate(disk0, cwd)) =>
               /\ pc = "done"
               /\ disk[cwd].content =
                      Flatten([i \in Idx(readlines(disk0[cwd].content)) |->
                                  ExpectedLine(readlines(disk0[cwd].content)[i])])
        /\ (argv = {} /\ disk0[cwd].content = <<97, CR, LF>>) =>
               disk[cwd].content = <<97, LF>>
        /\ flags.only_inspect => disk = disk0
        /\ \A p \in DOMAIN disk : p # cwd => disk[p] = disk0[p]

\* a clean run, without options, on b.txt holding a\r\n, which left a\n
C8_Witness ==
    /\ entry = "main_file"
    /\ pc = "done"
    /\ cwd = Bystander
    /\ argv = {}
    /\ disk0[cwd].content = <<97, CR, LF>>
    /\ disk[cwd].content = <<97, LF>>
    /\ is_valid(B_txt) # "True"

\* C10: an inspection of a file that cannot be opened does not raise: it
\* prints the failure and returns no True, the cleaner is never called on
\* that file, and the run goes on with the next candidate.
C10_UnreadableIsNoCR ==
    InFinder =>
        \A k \in Idx(trace) :
            (trace[k].fn = "inspect" /\ ~CanOpenRead(disk0, trace[k].path)) =>
                /\ trace[k].ret = "None"
                /\ trace[k].exc = "none"
                /\ \E n \in Idx(stdout) :
                       stdout[n].kind = "cant_read" /\ stdout[n].file = trace[k].path
                /\ CallsOf("clean", trace[k].path) = {}
                /\ k = Len(trace) => (pc \in {"finder", "done"} /\ exc = "none")
                /\ pc = "done" =>
                       \A p \in Range(walker(tree, cwd)) : CallsOf("inspect", p) # {}

\* a clean run in which a.py could not be opened and c.py, with a \r\n
\* line, was inspected and rewritten after it
C10_Witness ==
    /\ InFinder
    /\ pc = "done"
    /\ ~flags.only_inspect
    /\ ~CanOpenRead(disk0, join(RootDir, A_py))
    /\ HasCRLFLine(disk0[join(RootDir, A_py)].content)
    /\ \E j \in CallsOf("inspect", join(RootDir, A_py)) :
           \E k \in CallsOf("clean", join(RootDir, C_py)) :
               j < k /\ trace[k].exc = "none"

====
